---- MODULE Spec2Model ----
(***************************************************************************)
(* WCDB core connection layer: AbstractHandle (open/close, statement pool, *)
(* nested transactions over a savepoint stack, error classification) and   *)
(* the checkpoint scheduling policy of CheckpointConfig.                   *)
(***************************************************************************)
EXTENDS Integers, Sequences, FiniteSets, TLC

(***************************************************************************)
(* Bounds of the model.                                                    *)
(***************************************************************************)
MaxLevel == 2
MaxOpenLevel == 1
MaxStatements == 1
MaxBalance == 3
MaxSavepoints == 2
MaxFrames == 130

(***************************************************************************)
(* Result codes of the engine (sqlite3.h, included through WCDB/SQLite.h). *)
(***************************************************************************)
SQLITE_OK == 0
SQLITE_ERROR == 1
SQLITE_BUSY == 5
SQLITE_NOMEM == 7
SQLITE_CANTOPEN == 14
SQLITE_MISUSE == 21

\* markErrorAsIgnorable(-1): the mask the transaction operations use.
IgnoreAll == 0 - 1

\* Codes a caller may pass to markErrorAsIgnorable.
MaskCodes == {IgnoreAll, SQLITE_ERROR}

\* Outcomes the environment can force on one engine call: the code returned,
\* and whether the engine rolled the transaction back on its own (which it
\* may do for SQLITE_BUSY). rc = SQLITE_OK lets the statement run.
EnvOutcomes ==
    { [rc |-> SQLITE_OK, autoRollback |-> FALSE],
      [rc |-> SQLITE_ERROR, autoRollback |-> FALSE],
      [rc |-> SQLITE_BUSY, autoRollback |-> FALSE],
      [rc |-> SQLITE_BUSY, autoRollback |-> TRUE] }

EnvOk == [rc |-> SQLITE_OK, autoRollback |-> FALSE]

\* Values of the native handle m_handle: nullptr, a usable connection, and
\* the connection object sqlite3_open leaves behind when it fails.
Null == "nullptr"
Db == "db"
Sick == "sick"

Tables == {"t"}

\* Pages reported by one committed notification.
PageCounts == {1, 40, 99, 100}

VARIABLES
    m_handle,            \* native handle
    m_nestedLevel,       \* nesting depth
    m_codeToBeIgnored,   \* ignore mask, SQLITE_OK = unset
    m_error,             \* stored last-error record
    m_handleStatements,  \* statement pool: prepared flag of each slot
    m_notification,      \* notification registry: set of entries
    autocommit,          \* engine: sqlite3_get_autocommit != 0
    savepoints,          \* engine: open savepoints, oldest first
    errcode,             \* engine: sqlite3_errcode
    unignorable,         \* markErrorAsUnignorable was the last mask call
    alive,               \* the object has not been destroyed
    frames,              \* checkpoint queue: accumulated pages of the path
    delay,               \* checkpoint queue: delay of the last request
    last,                \* the last operation, its entry state and result
    log,                 \* engine calls and notifications of the last operation
    run                  \* begin/end pairing since the connection was idle

vars == << m_handle, m_nestedLevel, m_codeToBeIgnored, m_error,
           m_handleStatements, m_notification, autocommit, savepoints,
           errcode, unignorable, alive, frames, delay, last, log, run >>

(***************************************************************************)
(* SQL text of the statements the handle issues.                           *)
(***************************************************************************)
savepointPrefix == "WCDBSavepoint_"

\* savepointPrefix() + std::to_string(level)
SavepointName(level) == << savepointPrefix, level >>

NoName == << "", 0 >>
NoSql == [verb |-> "", name |-> NoName]
Sql(verb) == [verb |-> verb, name |-> NoName]
SqlNamed(verb, level) == [verb |-> verb, name |-> SavepointName(level)]

(***************************************************************************)
(* The connection as one value, threaded through the steps of an           *)
(* operation.                                                              *)
(***************************************************************************)
NoError == [code |-> SQLITE_OK, extended |-> FALSE, level |-> "None"]

Cur ==
    [ m_handle |-> m_handle, m_nestedLevel |-> m_nestedLevel,
      m_codeToBeIgnored |-> m_codeToBeIgnored, m_error |-> m_error,
      m_handleStatements |-> m_handleStatements,
      m_notification |-> m_notification,
      autocommit |-> autocommit, savepoints |-> savepoints,
      errcode |-> errcode, unignorable |-> unignorable,
      rc |-> SQLITE_OK, ret |-> TRUE, log |-> << >> ]

Event(kind, sql, rc, level, ret, s) ==
    [ ev |-> kind, sql |-> sql, rc |-> rc, level |-> level, ret |-> ret,
      mask |-> s.m_codeToBeIgnored, unignorable |-> s.unignorable ]

Logged(s, e) == [s EXCEPT !.log = Append(@, e)]

(***************************************************************************)
(* Error classifier.                                                       *)
(***************************************************************************)
\* markErrorAsIgnorable
MarkErrorAsIgnorable(s, codeToBeIgnored) ==
    [s EXCEPT !.m_codeToBeIgnored = codeToBeIgnored, !.unignorable = FALSE]

MarkErrorAsUnignorable_keep(s) == [s EXCEPT !.unignorable = TRUE]

\* markErrorAsUnignorable
MarkErrorAsUnignorable(s) ==
    [s EXCEPT !.m_codeToBeIgnored = SQLITE_OK, !.unignorable = TRUE]

NonIgnorable_strict(mask, rc) == mask > 0 /\ rc # mask

\* m_codeToBeIgnored >= 0 && rc != m_codeToBeIgnored
NonIgnorable(mask, rc) == mask >= 0 /\ rc # mask

\* The record setupAndNotifyError fills in.
SetupError(s, rc, sql) ==
    [ code |-> rc,
      extended |-> (rc # SQLITE_MISUSE),
      level |-> IF NonIgnorable(s.m_codeToBeIgnored, rc) THEN "Error" ELSE "Ignore" ]

Error_silentIgnore(s, rc, sql) ==
    LET e == SetupError(s, rc, sql)
        hard == NonIgnorable(s.m_codeToBeIgnored, rc)
    IN  IF hard
        THEN [Logged(s, Event("notify", sql, rc, e.level, FALSE, s))
                 EXCEPT !.m_error = e, !.ret = FALSE]
        ELSE [s EXCEPT !.ret = TRUE]

Error_storeIgnored(s, rc, sql) ==
    LET e == SetupError(s, rc, sql)
        hard == NonIgnorable(s.m_codeToBeIgnored, rc)
        n == Logged(s, Event("notify", sql, rc, e.level, ~hard, s))
    IN  [n EXCEPT !.m_error = e, !.ret = ~hard]

\* error(rc, sql): classify, notify the sink, report handled or not.
Error(s, rc, sql) ==
    LET e == SetupError(s, rc, sql)
        hard == NonIgnorable(s.m_codeToBeIgnored, rc)
        n == Logged(s, Event("notify", sql, rc, e.level, ~hard, s))
    IN  IF hard
        THEN [n EXCEPT !.m_error = e, !.ret = FALSE]
        ELSE [n EXCEPT !.ret = TRUE]

(***************************************************************************)
(* The engine behind sqlite3_exec.                                         *)
(***************************************************************************)
HasSavepoint(sp, name) == \E i \in 1..Len(sp) : sp[i] = name

LastIndexOf(sp, name) ==
    CHOOSE i \in 1..Len(sp) : sp[i] = name /\ \A j \in (i+1)..Len(sp) : sp[j] # name

\* What the statement does when the environment lets it run.
EngineRun(s, sql) ==
    CASE sql.verb = "BEGIN IMMEDIATE" ->
            IF s.autocommit
            THEN [s EXCEPT !.autocommit = FALSE, !.rc = SQLITE_OK]
            ELSE [s EXCEPT !.rc = SQLITE_ERROR]
      [] sql.verb = "COMMIT" ->
            IF s.autocommit
            THEN [s EXCEPT !.rc = SQLITE_ERROR]
            ELSE [s EXCEPT !.autocommit = TRUE, !.savepoints = << >>, !.rc = SQLITE_OK]
      [] sql.verb = "ROLLBACK" ->
            IF s.autocommit
            THEN [s EXCEPT !.rc = SQLITE_ERROR]
            ELSE [s EXCEPT !.autocommit = TRUE, !.savepoints = << >>, !.rc = SQLITE_OK]
      [] sql.verb = "SAVEPOINT" ->
            [s EXCEPT !.autocommit = FALSE,
                      !.savepoints = Append(@, sql.name), !.rc = SQLITE_OK]
      [] sql.verb = "RELEASE" ->
            IF HasSavepoint(s.savepoints, sql.name)
            THEN [s EXCEPT !.savepoints =
                              SubSeq(@, 1, LastIndexOf(@, sql.name) - 1),
                           !.rc = SQLITE_OK]
            ELSE [s EXCEPT !.rc = SQLITE_ERROR]
      [] sql.verb = "ROLLBACK TO" ->
            IF HasSavepoint(s.savepoints, sql.name)
            THEN [s EXCEPT !.savepoints =
                              SubSeq(@, 1, LastIndexOf(@, sql.name)),
                           !.rc = SQLITE_OK]
            ELSE [s EXCEPT !.rc = SQLITE_ERROR]
      [] OTHER -> [s EXCEPT !.rc = SQLITE_OK]

\* sqlite3_exec(m_handle, sql): a sick connection refuses every call.
SqliteExec(s, sql, env) ==
    LET r == IF s.m_handle = Sick
             THEN [s EXCEPT !.rc = SQLITE_MISUSE]
             ELSE IF env.rc # SQLITE_OK
             THEN [s EXCEPT !.rc = env.rc,
                            !.errcode = env.rc,
                            !.autocommit = IF env.autoRollback THEN TRUE ELSE @,
                            !.savepoints = IF env.autoRollback THEN << >> ELSE @]
             ELSE LET d == EngineRun(s, sql) IN [d EXCEPT !.errcode = d.rc]
    IN  Logged(r, Event("exec", sql, r.rc, "None", r.rc = SQLITE_OK, s))

\* execute(sql)
Execute(s, sql, env) ==
    LET r == SqliteExec(s, sql, env)
    IN  IF r.rc = SQLITE_OK THEN [r EXCEPT !.ret = TRUE] ELSE Error(r, r.rc, sql)

\* isInTransaction(): sqlite3_get_autocommit == 0
IsInTransaction(s) == ~s.autocommit

\* isOpened()
IsOpened(s) == s.m_handle # Null

(***************************************************************************)
(* Statement pool. A slot is the prepared flag of one HandleStatement.     *)
(***************************************************************************)
StatementSql(i) == [verb |-> "statement", name |-> << "", i >>]

RemoveAt(seq, i) == SubSeq(seq, 1, i - 1) \o SubSeq(seq, i + 1, Len(seq))

\* getStatement(): push_back a fresh, unprepared statement.
GetStatement(s) == [s EXCEPT !.m_handleStatements = Append(@, FALSE)]

\* returnStatement(): erase the slot.
ReturnStatement(s, i) == [s EXCEPT !.m_handleStatements = RemoveAt(@, i)]

\* HandleStatement::prepare: compile; a failure is classified by error().
Prepare(s, i, sql, env) ==
    LET rc == IF s.m_handle = Sick THEN SQLITE_MISUSE ELSE env.rc
        c == Logged([s EXCEPT !.rc = rc,
                              !.errcode = IF s.m_handle = Sick THEN @ ELSE rc],
                    Event("prepare", sql, rc, "None", rc = SQLITE_OK, s))
    IN  IF rc = SQLITE_OK
        THEN [c EXCEPT !.m_handleStatements[i] = TRUE, !.ret = TRUE]
        ELSE [Error(c, rc, sql) EXCEPT !.ret = FALSE]

\* HandleStatement::step(): a row or done is success.
Step(s, i, sql, env) ==
    LET c == Logged([s EXCEPT !.rc = env.rc, !.errcode = env.rc],
                    Event("step", sql, env.rc, "None", env.rc = SQLITE_OK, s))
    IN  IF env.rc = SQLITE_OK
        THEN [c EXCEPT !.ret = TRUE]
        ELSE [Error(c, env.rc, sql) EXCEPT !.ret = FALSE]

\* HandleStatement::finalize(): release the compiled form.
Finalize(s, i, sql) ==
    Logged([s EXCEPT !.m_handleStatements[i] = FALSE],
           Event("finalize", sql, SQLITE_OK, "None", TRUE, s))

RECURSIVE FinalizeFrom(_, _)
FinalizeFrom(s, i) ==
    IF i > Len(s.m_handleStatements)
    THEN s
    ELSE FinalizeFrom(IF s.m_handleStatements[i]
                      THEN Finalize(s, i, StatementSql(i))
                      ELSE s,
                      i + 1)

FinalizeStatements_none(s) == s

\* finalizeStatements(): force-finalize every statement still prepared.
FinalizeStatements(s) == FinalizeFrom(s, 1)

(***************************************************************************)
(* Notification registry (HandleNotification).                             *)
(***************************************************************************)
\* std::numeric_limits<int>::min()
IntMin == (0 - 2147483647) - 1

Kinds == {"committed", "willCheckpoint"}
Names == {"observer"}
Orders == {0}

Entry(kind, name, order) == [kind |-> kind, name |-> name, order |-> order]

RegistrySql(what, name, order) == [verb |-> what, name |-> << name, order >>]

\* set by name: replaces the entry of that name within the kind.
SetNotification(s, kind, order, name) ==
    [s EXCEPT !.m_notification =
        { e \in @ : ~(e.kind = kind /\ e.name = name) } \cup {Entry(kind, name, order)}]

\* unset by name.
UnsetNotification(s, kind, name) ==
    [s EXCEPT !.m_notification = { e \in @ : ~(e.kind = kind /\ e.name = name) }]

\* purge(): clear every kind. ret tells whether an entry was removed.
Purge(s) ==
    Logged([s EXCEPT !.m_notification = {}],
           Event("purge", RegistrySql("purge", "", 0), SQLITE_OK, "None",
                 s.m_notification # {}, s))

\* setNotificationWhenWillCheckpoint(order, name, callback)
SetNotificationWhenWillCheckpoint(s, order, name) ==
    Logged(SetNotification(s, "willCheckpoint", order, name),
           Event("setWillCheckpoint", RegistrySql("willCheckpoint", name, order),
                 SQLITE_OK, "None", TRUE, s))

\* The verdict of a will-checkpoint callback: the one close() installs is
\* [](const String &) -> bool { return false; }; the others let it proceed.
Returns(e) == e.name # "close"

\* The will-checkpoint hook: callbacks run in ascending order, each returns
\* a boolean, and the first false stops the checkpoint. ret tells whether
\* the checkpoint proceeds.
RECURSIVE RunWillCheckpoint(_, _)
RunWillCheckpoint(s, todo) ==
    IF todo = {}
    THEN [s EXCEPT !.ret = TRUE]
    ELSE LET e == CHOOSE x \in todo : \A y \in todo : x.order <= y.order
             r == Logged(s, Event("willCheckpoint",
                                  RegistrySql("willCheckpoint", e.name, e.order),
                                  SQLITE_OK, "None", Returns(e), s))
         IN  IF Returns(e)
             THEN RunWillCheckpoint(r, todo \ {e})
             ELSE [r EXCEPT !.ret = FALSE]

\* The engine is about to checkpoint: ask the hook, and checkpoint if it
\* lets it.
Checkpoint(s) ==
    LET w == RunWillCheckpoint(s, { e \in s.m_notification : e.kind = "willCheckpoint" })
    IN  IF w.ret
        THEN Logged(w, Event("checkpoint", NoSql, SQLITE_OK, "None", TRUE, w))
        ELSE w

(***************************************************************************)
(* Transactions.                                                           *)
(***************************************************************************)
\* beginTransaction()
BeginTransaction(s, env) == Execute(s, Sql("BEGIN IMMEDIATE"), env)

CommitOrRollbackTransaction_noRollback(s, e1, e2) ==
    LET a == [s EXCEPT !.m_nestedLevel = 0]
        c == Execute(a, Sql("COMMIT"), e1)
    IN  [c EXCEPT !.ret = c.ret]

\* commitOrRollbackTransaction()
CommitOrRollbackTransaction(s, e1, e2) ==
    LET a == [s EXCEPT !.m_nestedLevel = 0]
        c == Execute(a, Sql("COMMIT"), e1)
    IN  IF ~c.ret
        THEN LET m == MarkErrorAsIgnorable(c, IgnoreAll)
                 r == Execute(m, Sql("ROLLBACK"), e2)
                 u == MarkErrorAsUnignorable(r)
             IN  [u EXCEPT !.ret = FALSE]
        ELSE [c EXCEPT !.ret = TRUE]

RollbackTransaction_keepDepth(s, env) ==
    LET m == MarkErrorAsIgnorable(s, IgnoreAll)
        r == Execute(m, Sql("ROLLBACK"), env)
    IN  MarkErrorAsUnignorable(r)

\* rollbackTransaction()
RollbackTransaction(s, env) ==
    LET a == [s EXCEPT !.m_nestedLevel = 0]
        m == MarkErrorAsIgnorable(a, IgnoreAll)
        r == Execute(m, Sql("ROLLBACK"), env)
    IN  MarkErrorAsUnignorable(r)

BeginNestedTransaction_counted(s, env) ==
    LET a == [s EXCEPT !.m_nestedLevel = @ + 1]
    IN  IF ~IsInTransaction(s)
        THEN BeginTransaction(a, env)
        ELSE Execute(a, SqlNamed("SAVEPOINT", a.m_nestedLevel), env)

\* beginNestedTransaction()
BeginNestedTransaction(s, env) ==
    IF ~IsInTransaction(s)
    THEN BeginTransaction(s, env)
    ELSE LET a == [s EXCEPT !.m_nestedLevel = @ + 1]
         IN  Execute(a, SqlNamed("SAVEPOINT", a.m_nestedLevel), env)

TakeLevel_keep(s) == s

\* m_nestedLevel-- : the name is built from the old value.
TakeLevel(s) == [s EXCEPT !.m_nestedLevel = @ - 1]

CommitOrRollbackNestedTransaction_noRollback(s, e1, e2) ==
    IF s.m_nestedLevel = 0
    THEN CommitOrRollbackTransaction(s, e1, e2)
    ELSE LET level == s.m_nestedLevel
             a == TakeLevel(s)
             c == Execute(a, SqlNamed("RELEASE", level), e1)
         IN  [c EXCEPT !.ret = c.ret]

CommitOrRollbackNestedTransaction_restore(s, e1, e2) ==
    IF s.m_nestedLevel = 0
    THEN CommitOrRollbackTransaction(s, e1, e2)
    ELSE LET level == s.m_nestedLevel
             a == TakeLevel(s)
             c == Execute(a, SqlNamed("RELEASE", level), e1)
         IN  IF ~c.ret
             THEN LET m == MarkErrorAsIgnorable(c, IgnoreAll)
                      r == Execute(m, SqlNamed("ROLLBACK TO", level), e2)
                      u == MarkErrorAsIgnorable(r, s.m_codeToBeIgnored)
                  IN  [u EXCEPT !.ret = FALSE]
             ELSE [c EXCEPT !.ret = TRUE]

\* commitOrRollbackNestedTransaction()
CommitOrRollbackNestedTransaction(s, e1, e2) ==
    IF s.m_nestedLevel = 0
    THEN CommitOrRollbackTransaction(s, e1, e2)
    ELSE LET level == s.m_nestedLevel
             a == TakeLevel(s)
             c == Execute(a, SqlNamed("RELEASE", level), e1)
         IN  IF ~c.ret
             THEN LET m == MarkErrorAsIgnorable(c, IgnoreAll)
                      r == Execute(m, SqlNamed("ROLLBACK TO", level), e2)
                      u == MarkErrorAsUnignorable(r)
                  IN  [u EXCEPT !.ret = FALSE]
             ELSE [c EXCEPT !.ret = TRUE]

RollbackMask_caller(s) == s

\* markErrorAsIgnorable(-1) ahead of the rollback to a savepoint.
RollbackMask(s) == MarkErrorAsIgnorable(s, IgnoreAll)

\* rollbackNestedTransaction()
RollbackNestedTransaction(s, env) ==
    IF s.m_nestedLevel = 0
    THEN RollbackTransaction(s, env)
    ELSE LET level == s.m_nestedLevel
             a == TakeLevel(s)
             m == RollbackMask(a)
             r == Execute(m, SqlNamed("ROLLBACK TO", level), env)
         IN  MarkErrorAsUnignorable(r)

(***************************************************************************)
(* Open, close, existence probe.                                           *)
(***************************************************************************)
\* Outcomes of sqlite3_open: the code and the handle it stores.
OpenOutcomes ==
    { [rc |-> SQLITE_OK, handle |-> Db],
      [rc |-> SQLITE_CANTOPEN, handle |-> Sick],
      [rc |-> SQLITE_NOMEM, handle |-> Null] }

\* sqlite3_open(m_path, &m_handle)
SqliteOpen(s, o) ==
    Logged([s EXCEPT !.m_handle = o.handle, !.autocommit = TRUE,
                     !.savepoints = << >>, !.errcode = o.rc, !.rc = o.rc],
           Event("open", NoSql, o.rc, "None", o.rc = SQLITE_OK, s))

\* open()
Open(s, o) ==
    IF IsOpened(s)
    THEN [s EXCEPT !.ret = TRUE]
    ELSE LET r == SqliteOpen(s, o)
         IN  IF r.rc # SQLITE_OK THEN Error(r, r.rc, NoSql) ELSE [r EXCEPT !.ret = TRUE]

\* sqlite3_close_v2(m_handle): the engine checkpoints as it closes, unless
\* the will-checkpoint hook stops it.
SqliteClose(s) ==
    LET k == Checkpoint(s)
    IN  Logged([k EXCEPT !.autocommit = TRUE, !.savepoints = << >>,
                         !.errcode = SQLITE_OK],
               Event("close", NoSql, SQLITE_OK, "None", TRUE, k))

\* WCTRemedialAssert(m_nestedLevel == 0 && !isInTransaction(), ...,
\*                   m_nestedLevel = 0; rollbackTransaction();)
RemedyUnpairedTransaction(s, env) ==
    IF s.m_nestedLevel = 0 /\ ~IsInTransaction(s)
    THEN s
    ELSE RollbackTransaction([s EXCEPT !.m_nestedLevel = 0], env)

CloseGuard_always(s) == TRUE

\* if (m_handle)
CloseGuard(s) == s.m_handle # Null

Close_noVeto(s, env) ==
    IF CloseGuard(s)
    THEN LET f == FinalizeStatements(s)
             t == RemedyUnpairedTransaction(f, env)
             p == Purge(t)
             c == SqliteClose(p)
             n == [c EXCEPT !.m_handle = Null]
         IN  Purge(n)
    ELSE s

\* close()
Close(s, env) ==
    IF CloseGuard(s)
    THEN LET f == FinalizeStatements(s)
             t == RemedyUnpairedTransaction(f, env)
             p == Purge(t)
             w == SetNotificationWhenWillCheckpoint(p, IntMin, "close")
             c == SqliteClose(w)
             n == [c EXCEPT !.m_handle = Null]
         IN  Purge(n)
    ELSE s

\* getResultCode(): sqlite3_errcode
GetResultCode(s) == s.errcode

\* What compiling SELECT 1 FROM table LIMIT 0 returns: the environment's
\* failure if any, else SQLITE_ERROR when the table is not in the schema.
ProbeOutcome(tables, table, env) ==
    IF env.rc # SQLITE_OK THEN env
    ELSE IF table \notin tables THEN [env EXCEPT !.rc = SQLITE_ERROR]
    ELSE env

ProbeSql(table) == [verb |-> "SELECT 1 FROM", name |-> << table, 0 >>]

\* { result || getResultCode() == SQLITE_ERROR, result }
TableExistsResult(result, code) == << result \/ code = SQLITE_ERROR, result >>

ProbeMask_none(s) == s

\* markErrorAsIgnorable(SQLITE_ERROR) around the probe.
ProbeMask(s) == MarkErrorAsIgnorable(s, SQLITE_ERROR)

\* tableExists(table): the state after the call; ret holds "result".
TableExists(s, tables, table, e1, e2) ==
    LET g == GetStatement(s)
        i == Len(g.m_handleStatements)
        m == ProbeMask(g)
        p == Prepare(m, i, ProbeSql(table), ProbeOutcome(tables, table, e1))
        q == IF p.ret
             THEN LET st == Step(p, i, ProbeSql(table), e2)
                  IN  [Finalize(st, i, ProbeSql(table)) EXCEPT !.ret = st.ret]
             ELSE [p EXCEPT !.ret = FALSE]
        u == MarkErrorAsUnignorable(q)
    IN  ReturnStatement(u, i)

(***************************************************************************)
(* Checkpoint policy (CheckpointConfig).                                   *)
(***************************************************************************)
framesThresholdForCritical_late == 100 + 1

framesThresholdForCritical == 100
delayForCritical == 1
delayForNonCritical == 10

\* The delay requested for an accumulated page count.
DelayFor(accumulated) ==
    IF accumulated >= framesThresholdForCritical
    THEN delayForCritical
    ELSE delayForNonCritical

(***************************************************************************)
(* Initial state: a constructed, unopened handle over some database file.  *)
(***************************************************************************)
RunOff == [phase |-> "off", begins |-> 0, ends |-> 0, peak |-> 0]
RunFresh == [phase |-> "begin", begins |-> 0, ends |-> 0, peak |-> 0]

NoOp ==
    [ op |-> "construct", ret |-> TRUE, ret2 |-> TRUE, code |-> SQLITE_OK,
      table |-> "", present |-> FALSE, pages |-> 0, depth |-> 0 ]

Init ==
    /\ m_handle = Null
    /\ m_nestedLevel = 0
    /\ m_codeToBeIgnored = SQLITE_OK
    /\ m_error = NoError
    /\ m_handleStatements = << >>
    /\ m_notification = {}
    /\ autocommit = TRUE
    /\ savepoints = << >>
    /\ errcode = SQLITE_OK
    /\ unignorable = FALSE
    /\ alive = TRUE
    /\ frames = 0
    /\ delay = 0
    /\ last = NoOp
    /\ log = << >>
    /\ run = RunOff

(***************************************************************************)
(* One call of one operation: the state it leaves, and the record of it.   *)
(* depth is m_nestedLevel when the operation was called.                   *)
(***************************************************************************)
Called(op, ret, ret2, code, table) ==
    [ op |-> op, ret |-> ret, ret2 |-> ret2, code |-> code, table |-> table,
      present |-> FALSE, pages |-> 0, depth |-> m_nestedLevel ]

Becomes(r) ==
    /\ m_handle' = r.m_handle
    /\ m_nestedLevel' = r.m_nestedLevel
    /\ m_codeToBeIgnored' = r.m_codeToBeIgnored
    /\ m_error' = r.m_error
    /\ m_handleStatements' = r.m_handleStatements
    /\ m_notification' = r.m_notification
    /\ autocommit' = r.autocommit
    /\ savepoints' = r.savepoints
    /\ errcode' = r.errcode
    /\ unignorable' = r.unignorable
    /\ log' = r.log
    /\ UNCHANGED << frames, delay >>

Usable == alive /\ m_handle # Null

\* An outcome drawn for an engine call the operation did not make is fixed,
\* so that one run of the operation is one step.
Calls(r, kind) == Cardinality({ i \in 1..Len(r.log) : r.log[i].ev = kind })
Unused(r, kind, n, env) == Calls(r, kind) < n => env = EnvOk

CallOpen ==
    /\ alive
    /\ \E o \in OpenOutcomes :
          \E r \in {Open(Cur, o)} :
              /\ Becomes(r)
              /\ last' = Called("open", r.ret, TRUE, SQLITE_OK, "")

CallClose(op) ==
    /\ alive
    /\ \E e \in EnvOutcomes :
          \E r \in {Close(Cur, e)} :
              /\ Unused(r, "exec", 1, e)
              /\ Becomes(r)
              /\ last' = Called(op, TRUE, TRUE, SQLITE_OK, "")

CallBeginNestedTransaction(limit) ==
    /\ Usable
    /\ m_nestedLevel < limit
    /\ Len(savepoints) < MaxSavepoints
    /\ \E e \in EnvOutcomes :
          \E r \in {BeginNestedTransaction(Cur, e)} :
              /\ Becomes(r)
              /\ last' = Called("beginNestedTransaction", r.ret, TRUE, SQLITE_OK, "")

CallCommitOrRollbackNestedTransaction ==
    /\ Usable
    /\ \E e1, e2 \in EnvOutcomes :
          \E r \in {CommitOrRollbackNestedTransaction(Cur, e1, e2)} :
              /\ Unused(r, "exec", 2, e2)
              /\ Becomes(r)
              /\ last' = Called("commitOrRollbackNestedTransaction", r.ret, TRUE,
                                SQLITE_OK, "")

CallRollbackNestedTransaction ==
    /\ Usable
    /\ \E e \in EnvOutcomes :
          \E r \in {RollbackNestedTransaction(Cur, e)} :
              /\ Becomes(r)
              /\ last' = Called("rollbackNestedTransaction", TRUE, TRUE, SQLITE_OK, "")

(***************************************************************************)
(* Actions of the connection.                                              *)
(***************************************************************************)
DoOpen == CallOpen /\ UNCHANGED << alive, run >>

DoClose == CallClose("close") /\ UNCHANGED << alive, run >>

\* ~AbstractHandle(): close(), and the object is gone.
DoDestruct == CallClose("destruct") /\ alive' = FALSE /\ UNCHANGED run

DoBeginNestedTransaction ==
    CallBeginNestedTransaction(MaxLevel) /\ UNCHANGED << alive, run >>

DoCommitOrRollbackNestedTransaction ==
    CallCommitOrRollbackNestedTransaction /\ UNCHANGED << alive, run >>

DoRollbackNestedTransaction ==
    CallRollbackNestedTransaction /\ UNCHANGED << alive, run >>

DoBeginTransaction ==
    /\ Usable
    /\ \E e \in EnvOutcomes :
          \E r \in {BeginTransaction(Cur, e)} :
              /\ Becomes(r)
              /\ last' = Called("beginTransaction", r.ret, TRUE, SQLITE_OK, "")
    /\ UNCHANGED << alive, run >>

DoCommitOrRollbackTransaction ==
    /\ Usable
    /\ \E e1, e2 \in EnvOutcomes :
          \E r \in {CommitOrRollbackTransaction(Cur, e1, e2)} :
              /\ Unused(r, "exec", 2, e2)
              /\ Becomes(r)
              /\ last' = Called("commitOrRollbackTransaction", r.ret, TRUE, SQLITE_OK, "")
    /\ UNCHANGED << alive, run >>

DoRollbackTransaction ==
    /\ Usable
    /\ \E e \in EnvOutcomes :
          \E r \in {RollbackTransaction(Cur, e)} :
              /\ Becomes(r)
              /\ last' = Called("rollbackTransaction", TRUE, TRUE, SQLITE_OK, "")
    /\ UNCHANGED << alive, run >>

DoMarkErrorAsIgnorable ==
    /\ alive
    /\ \E c \in MaskCodes :
          \E r \in {MarkErrorAsIgnorable(Cur, c)} :
              /\ Becomes(r)
              /\ last' = Called("markErrorAsIgnorable", TRUE, TRUE, c, "")
    /\ UNCHANGED << alive, run >>

DoMarkErrorAsUnignorable ==
    /\ alive
    /\ \E r \in {MarkErrorAsUnignorable(Cur)} :
          /\ Becomes(r)
          /\ last' = Called("markErrorAsUnignorable", TRUE, TRUE, SQLITE_OK, "")
    /\ UNCHANGED << alive, run >>

DoGetStatement ==
    /\ alive
    /\ Len(m_handleStatements) < MaxStatements
    /\ Becomes(GetStatement(Cur))
    /\ last' = Called("getStatement", TRUE, TRUE, SQLITE_OK, "")
    /\ UNCHANGED << alive, run >>

DoReturnStatement ==
    /\ alive
    /\ \E i \in 1..Len(m_handleStatements) :
          /\ Becomes(ReturnStatement(Cur, i))
          /\ last' = Called("returnStatement", TRUE, TRUE, i, "")
    /\ UNCHANGED << alive, run >>

DoPrepare ==
    /\ Usable
    /\ \E i \in 1..Len(m_handleStatements) :
          /\ ~m_handleStatements[i]
          /\ \E e \in {o \in EnvOutcomes : ~o.autoRollback} :
                \E r \in {Prepare(Cur, i, StatementSql(i), e)} :
                    /\ Becomes(r)
                    /\ last' = Called("prepare", r.ret, TRUE, i, "")
    /\ UNCHANGED << alive, run >>

DoFinalize ==
    /\ Usable
    /\ \E i \in 1..Len(m_handleStatements) :
          /\ Becomes(Finalize(Cur, i, StatementSql(i)))
          /\ last' = Called("finalize", TRUE, TRUE, i, "")
    /\ UNCHANGED << alive, run >>

DoTableExists ==
    /\ Usable
    /\ \E table \in Tables, schema \in SUBSET Tables :
       \E e1, e2 \in {o \in EnvOutcomes : ~o.autoRollback} :
          \E r \in {TableExists(Cur, schema, table, e1, e2)} :
          \E pair \in {TableExistsResult(r.ret, GetResultCode(r))} :
              /\ Unused(r, "step", 1, e2)
              /\ Becomes(r)
              /\ last' = [Called("tableExists", pair[1], pair[2], SQLITE_OK, table)
                             EXCEPT !.present = (table \in schema)]
    /\ UNCHANGED << alive, run >>

DoSetNotification ==
    /\ Usable
    /\ \E k \in Kinds, n \in Names, o \in Orders :
          /\ Becomes(SetNotification(Cur, k, o, n))
          /\ last' = Called("setNotification", TRUE, TRUE, o, k)
    /\ UNCHANGED << alive, run >>

DoUnsetNotification ==
    /\ Usable
    /\ \E k \in Kinds, n \in Names :
          /\ Becomes(UnsetNotification(Cur, k, n))
          /\ last' = Called("unsetNotification", TRUE, TRUE, SQLITE_OK, k)
    /\ UNCHANGED << alive, run >>

\* The connection with its transactions and its error classifier.
Next ==
    \/ DoOpen
    \/ DoClose
    \/ DoBeginNestedTransaction
    \/ DoCommitOrRollbackNestedTransaction
    \/ DoRollbackNestedTransaction
    \/ DoBeginTransaction
    \/ DoCommitOrRollbackTransaction
    \/ DoRollbackTransaction
    \/ DoMarkErrorAsIgnorable
    \/ DoMarkErrorAsUnignorable
    \/ DoTableExists

Spec == Init /\ [][Next]_vars

(***************************************************************************)
(* The life cycle of the connection with its statement pool and registry.  *)
(***************************************************************************)
LifecycleBegin ==
    CallBeginNestedTransaction(MaxOpenLevel) /\ UNCHANGED << alive, run >>

NextLifecycle ==
    \/ DoOpen
    \/ DoClose
    \/ DoDestruct
    \/ LifecycleBegin
    \/ DoMarkErrorAsIgnorable
    \/ DoGetStatement
    \/ DoReturnStatement
    \/ DoPrepare
    \/ DoFinalize
    \/ DoSetNotification
    \/ DoUnsetNotification

SpecLifecycle == Init /\ [][NextLifecycle]_vars

(***************************************************************************)
(* Paired nesting: from a freshly opened connection, N calls of            *)
(* beginNestedTransaction followed by N calls that end a nesting level.    *)
(* run counts the calls of the sequence under way.                         *)
(***************************************************************************)
PairedOpen ==
    /\ m_handle = Null
    /\ CallOpen
    /\ run' = IF m_handle' # Null THEN RunFresh ELSE RunOff
    /\ UNCHANGED alive

PairedBegin ==
    /\ run.phase = "begin"
    /\ run.begins < MaxBalance
    /\ CallBeginNestedTransaction(MaxLevel)
    /\ run' = [run EXCEPT !.begins = @ + 1,
                           !.peak = IF m_nestedLevel' > @ THEN m_nestedLevel' ELSE @]
    /\ UNCHANGED alive

PairedCommitOrRollback ==
    /\ run.phase \in {"begin", "end"}
    /\ run.ends < run.begins
    /\ CallCommitOrRollbackNestedTransaction
    /\ run' = [run EXCEPT !.phase = "end", !.ends = @ + 1]
    /\ UNCHANGED alive

PairedRollback ==
    /\ run.phase \in {"begin", "end"}
    /\ run.ends < run.begins
    /\ CallRollbackNestedTransaction
    /\ run' = [run EXCEPT !.phase = "end", !.ends = @ + 1]
    /\ UNCHANGED alive

\* The sequence is over (or was never started): close, to open afresh.
PairedClose ==
    /\ m_handle # Null
    /\ run.ends = run.begins
    /\ CallClose("close")
    /\ run' = RunOff
    /\ UNCHANGED alive

NextPaired ==
    \/ PairedOpen
    \/ PairedBegin
    \/ PairedCommitOrRollback
    \/ PairedRollback
    \/ PairedClose
    \/ DoMarkErrorAsIgnorable
    \/ DoMarkErrorAsUnignorable

SpecPaired == Init /\ [][NextPaired]_vars

(***************************************************************************)
(* The nested transaction operations alone, in any order, on a connection  *)
(* that open() produced.                                                   *)
(***************************************************************************)
NextNested ==
    \/ DoOpen
    \/ DoBeginNestedTransaction
    \/ DoCommitOrRollbackNestedTransaction
    \/ DoRollbackNestedTransaction

SpecNested == Init /\ [][NextNested]_vars

(***************************************************************************)
(* The checkpoint policy on its own.                                       *)
(***************************************************************************)
\* CheckpointConfig::onCommitted(path, pages)
OnCommitted ==
    /\ \E p \in PageCounts :
          /\ frames + p <= MaxFrames
          /\ frames' = frames + p
          /\ delay' = DelayFor(frames + p)
          /\ last' = [Called("onCommitted", TRUE, TRUE, SQLITE_OK, "") EXCEPT !.pages = p]
    /\ UNCHANGED << m_handle, m_nestedLevel, m_codeToBeIgnored, m_error,
                    m_handleStatements, m_notification, autocommit, savepoints,
                    errcode, unignorable, alive, log, run >>

\* The queue ran the checkpoint of the path: its count starts over.
CheckpointDone ==
    /\ frames > 0
    /\ frames' = 0
    /\ delay' = 0
    /\ last' = Called("checkpointDone", TRUE, TRUE, SQLITE_OK, "")
    /\ UNCHANGED << m_handle, m_nestedLevel, m_codeToBeIgnored, m_error,
                    m_handleStatements, m_notification, autocommit, savepoints,
                    errcode, unignorable, alive, log, run >>

NextCheckpoint == OnCommitted \/ CheckpointDone

SpecCheckpoint == Init /\ [][NextCheckpoint]_vars

(***************************************************************************)
(* Properties.                                                             *)
(***************************************************************************)
Notifications == { i \in 1..Len(log) : log[i].ev = "notify" }
EndedNesting == {"commitOrRollbackNestedTransaction", "rollbackNestedTransaction"}

\* C1: from a freshly opened connection (depth 0, no transaction), after N
\* calls of beginNestedTransaction followed by N calls that are each
\* commitOrRollbackNestedTransaction or rollbackNestedTransaction, whatever
\* the engine answered, m_nestedLevel is 0.
C1_DepthZeroAfterPairedCalls ==
    (run.phase \in {"begin", "end"} /\ run.ends = run.begins) => m_nestedLevel = 0

C1_Witness ==
    /\ run.phase = "end"
    /\ run.ends = run.begins
    /\ run.begins >= 2
    /\ run.peak >= 1
    /\ last.op \in EndedNesting
    /\ m_nestedLevel = 0

\* C2 as stated: whenever commitOrRollbackNestedTransaction runs at depth
\* d > 0 and the RELEASE of the savepoint of depth d fails, the ROLLBACK TO
\* that savepoint succeeds, the call returns false and the depth is d - 1.
C2_Original ==
    [][ ( /\ last'.op = "commitOrRollbackNestedTransaction"
          /\ m_nestedLevel > 0
          /\ log'[1].rc # SQLITE_OK )
        => ( /\ \E i \in 2..Len(log') :
                   /\ log'[i].ev = "exec"
                   /\ log'[i].sql = SqlNamed("ROLLBACK TO", m_nestedLevel)
                   /\ log'[i].rc = SQLITE_OK
             /\ last'.ret = FALSE
             /\ m_nestedLevel' = m_nestedLevel - 1 ) ]_vars

\* C2 amended: when commitOrRollbackNestedTransaction runs at depth d > 0 and
\* the RELEASE of the savepoint of depth d fails, the depth afterwards is
\* d - 1; if the ignore mask at the call does not suppress the failure (it is
\* unset, or a non-negative code other than the failure), a ROLLBACK TO that
\* same savepoint is issued under the ignore-all mask, every failure of it is
\* Ignore severity, and the call returns false; if the mask suppresses the
\* failure no rollback is issued and the call returns true.
C2_ReleaseFailureCompensated ==
    [][ ( /\ last'.op = "commitOrRollbackNestedTransaction"
          /\ m_nestedLevel > 0
          /\ log'[1].rc # SQLITE_OK )
        => ( /\ m_nestedLevel' = m_nestedLevel - 1
             /\ log'[1].ev = "exec"
             /\ log'[1].sql = SqlNamed("RELEASE", m_nestedLevel)
             /\ IF m_codeToBeIgnored >= 0 /\ log'[1].rc # m_codeToBeIgnored
                THEN /\ last'.ret = FALSE
                     /\ \E i \in 2..Len(log') :
                           /\ log'[i].ev = "exec"
                           /\ log'[i].sql = SqlNamed("ROLLBACK TO", m_nestedLevel)
                           /\ log'[i].mask = IgnoreAll
                           /\ \A j \in (i + 1)..Len(log') :
                                 log'[j].ev = "notify" =>
                                    log'[j].level = "Ignore" /\ log'[j].ret
                ELSE /\ last'.ret = TRUE
                     /\ \A i \in 2..Len(log') : log'[i].ev # "exec" ) ]_vars

C2_Witness ==
    /\ last.op = "commitOrRollbackNestedTransaction"
    /\ Len(log) >= 4
    /\ log[1].sql.verb = "RELEASE"
    /\ log[1].rc # SQLITE_OK
    /\ log[3].sql.verb = "ROLLBACK TO"
    /\ log[3].sql.name = log[1].sql.name
    /\ log[3].rc # SQLITE_OK
    /\ last.ret = FALSE
    /\ m_nestedLevel = log[1].sql.name[2] - 1

\* C3 as stated: an error is Error severity and reported as failure whenever
\* the mask is unset or the code differs from the masked code, and Ignore
\* severity and reported as handled only when the code equals the masked code.
C3_Original ==
    \A i \in Notifications :
        IF log[i].mask = SQLITE_OK \/ log[i].rc # log[i].mask
        THEN log[i].level = "Error" /\ ~log[i].ret
        ELSE log[i].level = "Ignore" /\ log[i].ret

\* C3 amended: an error is Error severity and reported as failure whenever
\* the mask is unset or is a non-negative code that differs from the raised
\* code; it is Ignore severity and reported as handled when the code equals
\* the masked code or when the mask is negative (the ignore-all mask -1 of
\* the transaction operations).
C3_SeverityFollowsMask ==
    \A i \in Notifications :
        IF log[i].mask = SQLITE_OK \/ (log[i].mask > 0 /\ log[i].rc # log[i].mask)
        THEN log[i].level = "Error" /\ ~log[i].ret
        ELSE /\ log[i].level = "Ignore" /\ log[i].ret
             /\ (log[i].rc = log[i].mask \/ log[i].mask < 0)

C3_Witness ==
    \E i \in Notifications :
        /\ log[i].mask = IgnoreAll
        /\ log[i].rc # log[i].mask
        /\ log[i].level = "Ignore"
        /\ log[i].ret

\* C4: every error raised after markErrorAsUnignorable() and before any later
\* markErrorAsIgnorable is Error severity and its call reports failure,
\* whatever had been masked before.
C4_UnignorableMeansError ==
    \A i \in Notifications :
        log[i].unignorable => (log[i].level = "Error" /\ ~log[i].ret)

C4_Witness ==
    /\ last.op = "beginTransaction"
    /\ \E i \in Notifications : log[i].unignorable /\ log[i].level = "Error"
    /\ ~last.ret

Closed == {"close", "destruct"}

\* C5: close() on an opened connection ends with the native handle null;
\* every statement of the pool that was prepared is finalized before the
\* engine handle is released, and if the depth was not 0 or a transaction
\* was open, a full ROLLBACK is issued before the release and the depth is 0.
C5_CloseCompletes ==
    [][ (last'.op \in Closed /\ m_handle # Null)
        => ( /\ m_handle' = Null
             /\ \A i \in 1..Len(m_handleStatements') : ~m_handleStatements'[i]
             /\ \E c \in 1..Len(log') :
                   /\ log'[c].ev = "close"
                   /\ \A i \in 1..Len(m_handleStatements) :
                         m_handleStatements[i] =>
                            \E j \in 1..(c - 1) :
                               /\ log'[j].ev = "finalize"
                               /\ log'[j].sql = StatementSql(i)
                   /\ (m_nestedLevel # 0 \/ ~autocommit) =>
                         \E j \in 1..(c - 1) :
                            /\ log'[j].ev = "exec"
                            /\ log'[j].sql = Sql("ROLLBACK")
             /\ (m_nestedLevel # 0 \/ ~autocommit) => m_nestedLevel' = 0 ) ]_vars

C5_Witness ==
    /\ last.op = "close"
    /\ m_handle = Null
    /\ m_nestedLevel = 0
    /\ \E f, r, c \in 1..Len(log) :
          /\ f < r /\ r < c
          /\ log[f].ev = "finalize"
          /\ log[r].ev = "exec" /\ log[r].sql = Sql("ROLLBACK")
          /\ log[c].ev = "close"

\* C6 as stated: open() returns success exactly when the connection is
\* opened afterwards (a failed open leaves the native handle null).
C6_OpenSucceedsIffOpened ==
    last.op = "open" => (last.ret <=> m_handle # Null)

\* C7: close() on a connection whose native handle is null makes no engine
\* call, no rollback and no registry call, and leaves the handle, the depth,
\* the mask, the statement pool, the registry, the stored error and the
\* engine untouched.
C7_CloseIdempotent ==
    [][ (last'.op \in Closed /\ m_handle = Null)
        => ( /\ log' = << >>
             /\ UNCHANGED << m_handle, m_nestedLevel, m_codeToBeIgnored, m_error,
                             m_handleStatements, m_notification, autocommit,
                             savepoints, errcode >> ) ]_vars

C7_Witness ==
    /\ last.op = "close"
    /\ log = << >>
    /\ m_handle = Null
    /\ m_codeToBeIgnored # SQLITE_OK
    /\ Len(m_handleStatements) > 0
    /\ m_error.level = "Error"

ProbeCalls == { i \in 1..Len(log) : log[i].ev \in {"prepare", "step"} }

\* C8: tableExists(t) returns (true, false), with no Error severity error
\* raised, when t is absent and the probe fails with the table-not-found
\* code; it returns (true, true) when t is present and the probe succeeds;
\* it returns (false, _) only when a call of the probe failed with a code
\* other than the table-not-found code, and then the pair is (false, false).
C8_TableExists ==
    last.op = "tableExists" =>
        /\ (~last.present /\ log[1].rc = SQLITE_ERROR) =>
              /\ last.ret /\ ~last.ret2
              /\ \A i \in Notifications : log[i].level = "Ignore"
        /\ (last.present /\ \A i \in ProbeCalls : log[i].rc = SQLITE_OK) =>
              last.ret /\ last.ret2
        /\ ~last.ret =>
              /\ ~last.ret2
              /\ \E i \in ProbeCalls : log[i].rc \notin {SQLITE_OK, SQLITE_ERROR}

C8_Witness ==
    /\ last.op = "tableExists"
    /\ ~last.present
    /\ m_handle = Db
    /\ log[1].ev = "prepare" /\ log[1].rc = SQLITE_ERROR
    /\ \E i \in Notifications : log[i].level = "Ignore" /\ log[i].rc = SQLITE_ERROR
    /\ last.ret /\ ~last.ret2

\* C9: rollbackNestedTransaction issues ROLLBACK at depth 0 and ROLLBACK TO
\* the savepoint of the depth otherwise; every failure of it is Ignore
\* severity, never Error severity, and the depth afterwards is one less at
\* depth > 0 and 0 at depth 0.
C9_RollbackNeverHard ==
    [][ last'.op = "rollbackNestedTransaction"
        => ( /\ Len(log') >= 1
             /\ log'[1].ev = "exec"
             /\ log'[1].sql = IF m_nestedLevel = 0
                              THEN Sql("ROLLBACK")
                              ELSE SqlNamed("ROLLBACK TO", m_nestedLevel)
             /\ \A i \in 1..Len(log') :
                   log'[i].ev = "notify" => log'[i].level = "Ignore"
             /\ m_nestedLevel' = IF m_nestedLevel = 0 THEN 0 ELSE m_nestedLevel - 1 ) ]_vars

C9_Witness ==
    /\ last.op = "rollbackNestedTransaction"
    /\ Len(log) = 2
    /\ log[1].sql.verb = "ROLLBACK TO"
    /\ log[1].rc # SQLITE_OK
    /\ log[2].ev = "notify" /\ log[2].level = "Ignore"
    /\ m_nestedLevel = log[1].sql.name[2] - 1

\* C10: a committed notification with page count p adds p to the accumulated
\* count of the path, and the request made uses the delay 1.0 exactly when
\* the accumulated count is >= 100 and the delay 10.0 otherwise.
C10_CheckpointDelay ==
    [][ last'.op = "onCommitted"
        => ( /\ frames' = frames + last'.pages
             /\ delay' = IF frames' >= 100 THEN 1 ELSE 10 ) ]_vars

C10_Witness ==
    /\ last.op = "onCommitted"
    /\ frames = 100
    /\ last.pages = 1
    /\ delay = 1

EngineCalls == {"exec", "prepare", "step", "open"}
Failures == { i \in 1..Len(log) : log[i].ev \in EngineCalls /\ log[i].rc # SQLITE_OK }

\* C11: every failure of an engine call is pushed to the notification sink
\* exactly once, with its code and its SQL, right after the call and whatever
\* the ignore mask is; nothing else is pushed. The mask decides only the
\* severity and the value returned.
C11_EveryErrorNotifiedOnce ==
    /\ \A i \in Failures :
          /\ i < Len(log)
          /\ log[i + 1].ev = "notify"
          /\ log[i + 1].rc = log[i].rc
          /\ log[i + 1].sql = log[i].sql
          /\ log[i + 1].level \in {"Error", "Ignore"}
          /\ log[i + 1].ret = (log[i + 1].level = "Ignore")
    /\ \A i \in Notifications : i > 1 /\ (i - 1) \in Failures

C11_Witness ==
    /\ last.op = "commitOrRollbackTransaction"
    /\ Len(log) = 4
    /\ log[1].rc # SQLITE_OK
    /\ log[2].ev = "notify" /\ log[2].level = "Error" /\ log[2].sql = Sql("COMMIT")
    /\ log[3].rc # SQLITE_OK
    /\ log[4].ev = "notify" /\ log[4].level = "Ignore" /\ log[4].sql = Sql("ROLLBACK")

\* C12 as stated: in every state reached through beginNestedTransaction,
\* commitOrRollbackNestedTransaction and rollbackNestedTransaction, whenever
\* isInTransaction() is false the nesting depth is 0.
C12_NoTransactionMeansDepthZero ==
    (m_handle # Null /\ ~IsInTransaction(Cur)) => m_nestedLevel = 0

\* C13 as stated: in every reachable state in which the engine has a real
\* transaction open, the nesting depth is at least 1.
C13_Original ==
    (m_handle # Null /\ IsInTransaction(Cur)) => m_nestedLevel >= 1

\* C13 amended: the real transaction is opened at depth 0. beginTransaction,
\* and the beginNestedTransaction that finds the engine in autocommit, issue
\* BEGIN IMMEDIATE and leave the depth as it was, so that a state with a real
\* transaction open has depth >= 0; the depth is raised only by a
\* beginNestedTransaction that finds a transaction open, and then by one.
C13_RealTransactionAtDepthZero ==
    [][ /\ ( \/ last'.op = "beginTransaction"
             \/ (last'.op = "beginNestedTransaction" /\ ~IsInTransaction(Cur)) )
           => ( /\ log'[1].ev = "exec"
                /\ log'[1].sql = Sql("BEGIN IMMEDIATE")
                /\ m_nestedLevel' = m_nestedLevel
                /\ (log'[1].rc = SQLITE_OK => ~autocommit') )
        /\ m_nestedLevel' > m_nestedLevel
           => ( /\ last'.op = "beginNestedTransaction"
                /\ IsInTransaction(Cur)
                /\ m_nestedLevel' = m_nestedLevel + 1 ) ]_vars

C13_Witness ==
    /\ last.op = "beginNestedTransaction"
    /\ log[1].sql = Sql("BEGIN IMMEDIATE")
    /\ log[1].rc = SQLITE_OK
    /\ IsInTransaction(Cur)
    /\ m_nestedLevel = 0

RealEnd == {"commitOrRollbackTransaction", "rollbackTransaction"}

\* C14 as stated: across every operation of the connection a step that
\* lowers the depth lowers it by exactly one.
C14_Original ==
    [][ m_nestedLevel' < m_nestedLevel => m_nestedLevel' = m_nestedLevel - 1 ]_vars

\* C14 amended: the depth is lowered only by the calls that end a
\* transaction or a nesting level and by close(); the nested commit and
\* rollback at depth d > 0 lower it by exactly one, while
\* commitOrRollbackTransaction, rollbackTransaction and close() of an opened
\* connection reset it to 0 from whatever depth it had.
C14_DepthLowering ==
    [][ /\ m_nestedLevel' < m_nestedLevel
           => \/ last'.op \in EndedNesting /\ m_nestedLevel' = m_nestedLevel - 1
              \/ last'.op \in RealEnd \cup Closed /\ m_nestedLevel' = 0
        /\ (last'.op \in EndedNesting /\ m_nestedLevel > 0)
           => m_nestedLevel' = m_nestedLevel - 1
        /\ (last'.op \in RealEnd \/ (last'.op \in Closed /\ m_handle # Null))
           => m_nestedLevel' = 0 ]_vars

C14_Witness ==
    /\ last.op \in RealEnd
    /\ last.depth = 2
    /\ m_nestedLevel = 0

\* The savepoints open in the engine have pairwise distinct names.
DistinctNames(sp) ==
    \A i, j \in 1..Len(sp) : i # j => sp[i] # sp[j]

\* The savepoint of that name is the one most recently opened.
MostRecent(sp, name) == Len(sp) > 0 /\ sp[Len(sp)] = name

\* C15 as stated: a beginNestedTransaction inside a real transaction raises
\* the depth by one and issues SAVEPOINT <prefix><new depth>; a nested commit
\* or rollback at depth d > 0 targets <prefix><d>, which is the savepoint
\* most recently opened; and the savepoints opened and not yet ended have
\* pairwise distinct names at every point.
C15_SavepointNamesUnique ==
    [][ /\ (last'.op = "beginNestedTransaction" /\ IsInTransaction(Cur))
           => ( /\ m_nestedLevel' = m_nestedLevel + 1
                /\ log'[1].sql = SqlNamed("SAVEPOINT", m_nestedLevel') )
        /\ (last'.op \in EndedNesting /\ m_nestedLevel > 0)
           => ( /\ log'[1].sql.name = SavepointName(m_nestedLevel)
                /\ m_handle = Db => MostRecent(savepoints, SavepointName(m_nestedLevel)) )
        /\ DistinctNames(savepoints') ]_vars

\* C16 as stated, on a connection that open() opened:
\* commitOrRollbackNestedTransaction at depth 0 issues COMMIT;
\* it returns true only if the COMMIT succeeded; if the COMMIT fails a
\* ROLLBACK follows with its errors ignorable, the mask is unset on return,
\* the depth is 0 and the call returns false.
C16_Original ==
    [][ ( /\ last'.op = "commitOrRollbackNestedTransaction"
          /\ m_nestedLevel = 0
          /\ m_handle = Db )
        => ( /\ log'[1].ev = "exec"
             /\ log'[1].sql = Sql("COMMIT")
             /\ m_nestedLevel' = 0
             /\ IF log'[1].rc = SQLITE_OK
                THEN last'.ret
                ELSE /\ ~last'.ret
                     /\ \E i \in 2..Len(log') :
                           /\ log'[i].ev = "exec"
                           /\ log'[i].sql = Sql("ROLLBACK")
                           /\ log'[i].mask = IgnoreAll
                     /\ m_codeToBeIgnored' = SQLITE_OK ) ]_vars

\* C16 amended: commitOrRollbackNestedTransaction at depth 0 issues COMMIT
\* and leaves the depth at 0. If the COMMIT succeeds it returns true and
\* leaves the mask alone. If the COMMIT fails and the mask at the call does
\* not suppress the failure (it is unset, or a non-negative code other than
\* the failure), a ROLLBACK follows under the ignore-all mask, every failure
\* of it is Ignore severity, the mask is unset on return and the call
\* returns false whatever the rollback did. If the mask suppresses the
\* failure, no rollback is issued, the mask is kept and the call returns
\* true.
C16_CommitFailureCompensated ==
    [][ (last'.op = "commitOrRollbackNestedTransaction" /\ m_nestedLevel = 0)
        => ( /\ log'[1].ev = "exec"
             /\ log'[1].sql = Sql("COMMIT")
             /\ m_nestedLevel' = 0
             /\ IF log'[1].rc = SQLITE_OK
                THEN /\ last'.ret
                     /\ Len(log') = 1
                     /\ m_codeToBeIgnored' = m_codeToBeIgnored
                ELSE IF m_codeToBeIgnored >= 0 /\ log'[1].rc # m_codeToBeIgnored
                THEN /\ ~last'.ret
                     /\ Len(log') >= 3
                     /\ log'[2].ev = "notify" /\ log'[2].level = "Error"
                     /\ log'[3].ev = "exec"
                     /\ log'[3].sql = Sql("ROLLBACK")
                     /\ log'[3].mask = IgnoreAll
                     /\ \A j \in 4..Len(log') :
                           log'[j].ev = "notify" /\ log'[j].level = "Ignore"
                     /\ m_codeToBeIgnored' = SQLITE_OK
                ELSE /\ last'.ret
                     /\ Len(log') = 2
                     /\ log'[2].ev = "notify" /\ log'[2].level = "Ignore"
                     /\ m_codeToBeIgnored' = m_codeToBeIgnored ) ]_vars

C16_Witness ==
    /\ last.op = "commitOrRollbackNestedTransaction"
    /\ last.depth = 0
    /\ Len(log) = 4
    /\ log[1].sql = Sql("COMMIT") /\ log[1].rc # SQLITE_OK
    /\ log[3].sql = Sql("ROLLBACK") /\ log[3].rc # SQLITE_OK
    /\ log[4].level = "Ignore"
    /\ ~last.ret
    /\ m_codeToBeIgnored = SQLITE_OK
    /\ m_nestedLevel = 0

Rollbacks == {"rollbackNestedTransaction", "rollbackTransaction"}
Commits == {"commitOrRollbackNestedTransaction", "commitOrRollbackTransaction"}

\* C17 as stated, on a connection that open() opened: with ignorable code c
\* set by the caller, the mask is unset on return from
\* rollbackNestedTransaction, from rollbackTransaction and from a
\* commitOrRollback operation whose COMMIT or RELEASE fails; it is still c on
\* return from a commitOrRollback operation whose COMMIT or RELEASE succeeds.
C17_Original ==
    [][ (m_codeToBeIgnored # SQLITE_OK /\ m_handle = Db)
        => ( /\ last'.op \in Rollbacks => m_codeToBeIgnored' = SQLITE_OK
             /\ last'.op \in Commits =>
                   m_codeToBeIgnored' = IF log'[1].rc # SQLITE_OK
                                        THEN SQLITE_OK
                                        ELSE m_codeToBeIgnored ) ]_vars

\* C17 amended: with ignorable code c set by the caller, the mask is unset
\* on return from rollbackNestedTransaction, from rollbackTransaction and
\* from a commitOrRollback operation whose COMMIT or RELEASE fails with a
\* code that c does not suppress (c is non-negative and differs from the
\* code); it is still c on return from a commitOrRollback operation whose
\* COMMIT or RELEASE succeeds, or fails with a code that c suppresses (c is
\* the code, or the ignore-all mask), because then no compensation runs.
C17_MaskClearedNotRestored ==
    [][ m_codeToBeIgnored # SQLITE_OK
        => ( /\ last'.op \in Rollbacks => m_codeToBeIgnored' = SQLITE_OK
             /\ last'.op \in Commits =>
                   /\ log'[1].ev = "exec"
                   /\ log'[1].sql.verb \in {"COMMIT", "RELEASE"}
                   /\ log'[1].mask = m_codeToBeIgnored
                   /\ m_codeToBeIgnored' =
                         IF /\ log'[1].rc # SQLITE_OK
                            /\ m_codeToBeIgnored >= 0
                            /\ log'[1].rc # m_codeToBeIgnored
                         THEN SQLITE_OK
                         ELSE m_codeToBeIgnored ) ]_vars

C17_Witness ==
    /\ last.op \in Commits
    /\ log[1].mask = SQLITE_ERROR
    /\ log[1].rc = SQLITE_BUSY
    /\ \E i \in 2..Len(log) : log[i].ev = "exec" /\ log[i].mask = IgnoreAll
    /\ m_codeToBeIgnored = SQLITE_OK
    /\ ~last.ret

Ran(kind) == { i \in 1..Len(log) : log[i].ev = kind }

\* C18: close() of an opened connection ends with these calls, in this
\* order: it purges the registry, installs the will-checkpoint observer
\* "close" at the lowest order an int can hold, releases the engine handle,
\* and purges the registry again; the only observer that runs while the
\* engine closes is "close", it returns false and no checkpoint proceeds;
\* the registry is empty for every hook kind when close() returns.
C18_CloseVetoesCheckpoint ==
    [][ (last'.op \in Closed /\ m_handle # Null)
        => ( /\ m_notification' = {}
             /\ Ran("checkpoint")' = {}
             /\ Len(log') >= 5
             /\ log'[Len(log') - 4].ev = "purge"
             /\ log'[Len(log') - 3].ev = "setWillCheckpoint"
             /\ log'[Len(log') - 3].sql = RegistrySql("willCheckpoint", "close", IntMin)
             /\ Ran("willCheckpoint")' = {Len(log') - 2}
             /\ log'[Len(log') - 2].sql = RegistrySql("willCheckpoint", "close", IntMin)
             /\ ~log'[Len(log') - 2].ret
             /\ log'[Len(log') - 1].ev = "close"
             /\ log'[Len(log')].ev = "purge" ) ]_vars

C18_Witness ==
    /\ last.op = "close"
    /\ \E p \in Ran("purge"), w \in Ran("setWillCheckpoint") : p < w /\ log[p].ret
    /\ Ran("close") # {}
    /\ Ran("willCheckpoint") # {}
    /\ Ran("checkpoint") = {}
    /\ m_notification = {}
    /\ m_handle = Null

\* C19 as stated: a beginNestedTransaction that reports failure leaves the
\* nesting depth as it was before the call, whether the statement that
\* failed was the BEGIN or the SAVEPOINT.
C19_FailedBeginKeepsDepth ==
    (last.op = "beginNestedTransaction" /\ ~last.ret) => m_nestedLevel = last.depth

\* The notifications of Error severity among those of a log.
HardErrors(l) == { i \in 1..Len(l) : l[i].ev = "notify" /\ l[i].level = "Error" }

Latest(set) == CHOOSE i \in set : \A j \in set : j <= i

\* C20: an operation whose errors are all of Ignore severity leaves the
\* stored error record m_error as it was; the record changes only on an
\* error of Error severity, and then holds the last such error of the
\* operation, so that after a rollback compensation or an existence probe
\* it still shows the last hard error and not the ignored one.
C20_IgnoredErrorKeepsRecord ==
    [][ IF HardErrors(log') = {}
        THEN m_error' = m_error
        ELSE /\ m_error'.level = "Error"
             /\ m_error'.code = log'[Latest(HardErrors(log'))].rc ]_vars

C20_Witness ==
    /\ last.op \in Commits
    /\ Len(log) = 4
    /\ log[2].ev = "notify" /\ log[2].level = "Error" /\ log[2].rc = SQLITE_BUSY
    /\ log[4].ev = "notify" /\ log[4].level = "Ignore" /\ log[4].rc = SQLITE_ERROR
    /\ m_error.level = "Error"
    /\ m_error.code = SQLITE_BUSY

====
